---- MODULE Spec2Model ----
(***************************************************************************)
(* Appointment availability and booking engine of the dental receptionist  *)
(* (backend/app/services/calendar_service.py, driven by backend/run.py).   *)
(* and the chat sessions that drive it (backend/app/routes/chat.py,        *)
(* backend/app/services/intent_processor.py).                              *)
(*                                                                         *)
(* Time is counted in seconds of local clinic time (fixed +05:00) from     *)
(* Monday 00:00:00 of a model week; a date is a day index, day 0 being a   *)
(* Monday, so that weekday(d) = d % 7 as date.weekday() computes it.       *)
(* Day 0 is Monday 1 January 2024.                                         *)
(***************************************************************************)
EXTENDS Integers, Sequences, FiniteSets, TLC

VARIABLES now, calendar, pc, req, conf, rdok, last, slotsOut, resolved, todayOut,
          sessions, reply

vars ==
    <<now, calendar, pc, req, conf, rdok, last, slotsOut, resolved, todayOut,
      sessions, reply>>

(***************************************************************************)
(* Clinic configuration (defaults of the environment variables).           *)
(***************************************************************************)
CLINIC_OPEN_HOUR == 9
CLINIC_CLOSE_HOUR == 19
APPOINTMENT_DURATION == 60
BUFFER_TIME == 15

(***************************************************************************)
(* Bounds of the model.                                                    *)
(***************************************************************************)
\* events booked into the calendar in a run of Spec, SpecSeq and SpecRace
MaxBooked == 1
MaxBookedSeq == 2
MaxBookedRace == 2

Procs == {1, 2}

Minute == 1 * 60
Hour == 60 * Minute
Day == 24 * Hour

\* timedelta(minutes=m), timedelta(hours=h)
Minutes(m) == m * Minute
Hours(h) == h * Hour

\* datetime.combine(d, time(h, m)) in clinic time
At(d, h, m) == d * Day + h * Hour + m * Minute

\* dt.date(), dt.hour, dt.minute
DateOf(t) == t \div Day
HourOf(t) == (t % Day) \div Hour
MinuteOf(t) == (t % Hour) \div Minute

\* date.weekday(): Monday = 0 ... Sunday = 6
Weekday(d) == d % 7

(***************************************************************************)
(* Business calendar rules.                                                *)
(***************************************************************************)
is_within_clinic_hours(t) ==
    /\ CLINIC_OPEN_HOUR <= HourOf(t)
    /\ HourOf(t) < CLINIC_CLOSE_HOUR

\* the closure put on Saturday instead of Sunday
is_weekend_saturday(d) == Weekday(d) = 5

is_weekend(d) == Weekday(d) = 6

(***************************************************************************)
(* Field validation.  A phone number is a sequence of characters.          *)
(***************************************************************************)
Digits == {"0", "1", "2", "3", "4", "5", "6", "7", "8", "9"}

IsDigits(s) == \A i \in 1..Len(s) : s[i] \in Digits

\* re.sub(r'[\s\-\(\)]+', '', phone)
CleanPhone(phone) == SelectSeq(phone, LAMBDA c : c \notin {" ", "-", "(", ")"})

HasPrefix(s, pre) == Len(s) >= Len(pre) /\ SubSeq(s, 1, Len(pre)) = pre

\* re.match(prefix + '[0-9]{n}$', s)
MatchPrefixDigits(s, pre, n) ==
    /\ Len(s) = Len(pre) + n
    /\ HasPrefix(s, pre)
    /\ IsDigits(SubSeq(s, Len(pre) + 1, Len(s)))

validate_phone_number(phone) ==
    IF phone = <<>> THEN FALSE
    ELSE LET clean_phone == CleanPhone(phone) IN
         \/ MatchPrefixDigits(clean_phone, <<"+", "9", "2">>, 10)
         \/ MatchPrefixDigits(clean_phone, <<"9", "2">>, 10)
         \/ MatchPrefixDigits(clean_phone, <<"0">>, 10)
         \/ MatchPrefixDigits(clean_phone, <<>>, 11)
         \/ /\ Len(clean_phone) = 16
            /\ HasPrefix(clean_phone, <<"+", "9", "2", "-">>)
            /\ IsDigits(SubSeq(clean_phone, 5, 7))
            /\ clean_phone[8] = "-"
            /\ IsDigits(SubSeq(clean_phone, 9, 16))
         \/ Len(clean_phone) >= 10 /\ IsDigits(clean_phone)

(***************************************************************************)
(* The external calendar.  An event is a record                            *)
(*   [id, start, end, timed, origin, summary]                              *)
(* timed = FALSE is an all-day entry (no 'dateTime' under 'start');        *)
(* origin is "book" for an event this system inserted, "moved" for one     *)
(* whose times this system set by rescheduling and "ext" for one that was  *)
(* put into the calendar by somebody else; summary is "cancelled" once the *)
(* title carries the [CANCELLED] prefix.  The id the calendar gives a new  *)
(* event is the least one that keeps it apart from the events with the     *)
(* same start and end.                                                     *)
(***************************************************************************)
NoEvent == [id |-> 0, start |-> 0, end |-> 0, timed |-> FALSE, origin |-> "none",
     summary |-> "none"]

\* orderBy='startTime'
EventBefore(a, b) ==
    \/ a.start < b.start
    \/ a.start = b.start /\ a.end < b.end
    \/ a.start = b.start /\ a.end = b.end /\ a.id < b.id

RECURSIVE SortEvents(_)
SortEvents(S) ==
    IF S = {} THEN <<>>
    ELSE LET first == CHOOSE a \in S : \A b \in S \ {a} : EventBefore(a, b)
         IN <<first>> \o SortEvents(S \ {first})

\* events().list(timeMin = start of day, timeMax = end of day): the events
\* that end after timeMin and start before timeMax; [] when the call raises
get_existing_appointments(cal, date, readOk) ==
    IF ~readOk THEN <<>>
    ELSE SortEvents({e \in cal : e.end > At(date, 0, 0) /\ e.start < At(date + 1, 0, 0)})

(***************************************************************************)
(* Conflict detector.                                                      *)
(***************************************************************************)
direct_overlap(requested_start, requested_end, e) ==
    requested_start < e.end /\ requested_end > e.start

\* the buffered test with the buffer left out
buffer_overlap_unbuffered(requested_start, requested_end, e) ==
    requested_start < e.end /\ requested_end > e.start

buffer_overlap(requested_start, requested_end, e) ==
    /\ requested_start - Minutes(BUFFER_TIME) < e.end
    /\ requested_end + Minutes(BUFFER_TIME) > e.start

\* the test applied to all-day entries as well
EventConflicts_untimed(requested_start, requested_end, e) ==
    \/ direct_overlap(requested_start, requested_end, e)
    \/ buffer_overlap(requested_start, requested_end, e)

EventConflicts(requested_start, requested_end, e) ==
    /\ e.timed
    /\ \/ direct_overlap(requested_start, requested_end, e)
       \/ buffer_overlap(requested_start, requested_end, e)

\* returns (has_conflict, conflicting_event): the first conflicting event
check_time_conflict(requested_start, requested_end, existing_events) ==
    LET hits == {i \in 1..Len(existing_events) :
                    EventConflicts(requested_start, requested_end, existing_events[i])}
    IN IF hits = {} THEN [has_conflict |-> FALSE, event |-> NoEvent]
       ELSE [has_conflict |-> TRUE,
             event |-> existing_events[CHOOSE i \in hits : \A j \in hits : i <= j]]

(***************************************************************************)
(* Slot generator.                                                         *)
(***************************************************************************)
\* earliest_time.replace(minute = 0 if minute < 30 else 30, second = 0)
SnapHalfHour(t) ==
    (t - (t % Hour)) + (IF MinuteOf(t) < 30 THEN 0 ELSE Minutes(30))

MakeSlot(current_time, slot_end) ==
    [start_time |-> current_time,
     end_time |-> slot_end,
     time_24h |-> <<HourOf(current_time), MinuteOf(current_time)>>]

RECURSIVE SlotLoop(_, _, _, _)
SlotLoop(current_time, end_time, duration_minutes, existing_events) ==
    IF current_time + Minutes(duration_minutes) <= end_time
    THEN LET slot_end == current_time + Minutes(duration_minutes)
             c == check_time_conflict(current_time, slot_end, existing_events)
             rest == SlotLoop(current_time + Minutes(30), end_time,
                              duration_minutes, existing_events)
         IN IF ~c.has_conflict
            THEN <<MakeSlot(current_time, slot_end)>> \o rest
            ELSE rest
    ELSE <<>>

\* today's first candidate taken from the clock even when it precedes opening
generate_alternative_slots_unclamped(cal, clock, requested_date, duration_minutes, readOk) ==
    IF is_weekend(requested_date) THEN <<>>
    ELSE IF requested_date < DateOf(clock) THEN <<>>
    ELSE LET existing_events == get_existing_appointments(cal, requested_date, readOk)
             open_time == At(requested_date, CLINIC_OPEN_HOUR, 0)
             end_time == At(requested_date, CLINIC_CLOSE_HOUR, 0)
             earliest_time == clock + Hours(1)
             current_time ==
                 IF requested_date = DateOf(clock)
                 THEN SnapHalfHour(earliest_time)
                 ELSE open_time
             slots == SlotLoop(current_time, end_time, duration_minutes, existing_events)
         IN SelectSeq(slots, LAMBDA s : s.end_time <= end_time)

generate_alternative_slots(cal, clock, requested_date, duration_minutes, readOk) ==
    IF is_weekend(requested_date) THEN <<>>
    ELSE IF requested_date < DateOf(clock) THEN <<>>
    ELSE LET existing_events == get_existing_appointments(cal, requested_date, readOk)
             open_time == At(requested_date, CLINIC_OPEN_HOUR, 0)
             end_time == At(requested_date, CLINIC_CLOSE_HOUR, 0)
             earliest_time == clock + Hours(1)
             current_time ==
                 IF requested_date = DateOf(clock) /\ earliest_time > open_time
                 THEN SnapHalfHour(earliest_time)
                 ELSE open_time
             slots == SlotLoop(current_time, end_time, duration_minutes, existing_events)
         IN SelectSeq(slots, LAMBDA s : s.end_time <= end_time)

\* returns the response of get_available_slots_for_date
get_available_slots_for_date(cal, clock, requested_date, duration_minutes, readOk) ==
    IF is_weekend(requested_date)
    THEN [success |-> FALSE, message |-> "closed", available_slots |-> <<>>]
    ELSE IF requested_date < DateOf(clock)
    THEN [success |-> FALSE, message |-> "past", available_slots |-> <<>>]
    ELSE LET slots == generate_alternative_slots(cal, clock, requested_date,
                                                 duration_minutes, readOk)
         IN IF Len(slots) = 0
            THEN [success |-> FALSE, message |-> "none", available_slots |-> <<>>]
            ELSE [success |-> TRUE, message |-> "found", available_slots |-> slots]

(***************************************************************************)
(* Booking validator.                                                      *)
(***************************************************************************)
\* the validator without its closed-day rule
validate_appointment_request_open_sunday(clock, start_datetime, end_datetime) ==
    IF start_datetime <= clock THEN "past"
    ELSE IF \/ ~is_within_clinic_hours(start_datetime)
            \/ ~is_within_clinic_hours(end_datetime - Minutes(1))
    THEN "outside_hours"
    ELSE IF end_datetime > At(DateOf(start_datetime), CLINIC_CLOSE_HOUR, 0)
    THEN "exceeds_hours"
    ELSE "valid"

\* returns "valid" or the rule that rejects the request
validate_appointment_request(clock, start_datetime, end_datetime) ==
    IF start_datetime <= clock THEN "past"
    ELSE IF \/ ~is_within_clinic_hours(start_datetime)
            \/ ~is_within_clinic_hours(end_datetime - Minutes(1))
    THEN "outside_hours"
    ELSE IF is_weekend(DateOf(start_datetime)) THEN "closed_day"
    ELSE IF end_datetime > At(DateOf(start_datetime), CLINIC_CLOSE_HOUR, 0)
    THEN "exceeds_hours"
    ELSE "valid"

\* returns the response of check_today_availability, the slots kept being
\* those that start at now + 1 hour or later
check_today_availability_inclusive(cal, clock, readOk) ==
    LET today == DateOf(clock) IN
    IF is_weekend(today)
    THEN [available |-> FALSE, message |-> "closed", slots |-> <<>>]
    ELSE IF HourOf(clock) >= CLINIC_CLOSE_HOUR
    THEN [available |-> FALSE, message |-> "over", slots |-> <<>>]
    ELSE LET slots == generate_alternative_slots(cal, clock, today,
                                                 APPOINTMENT_DURATION, readOk)
             available_slots ==
                 SelectSeq(slots, LAMBDA slot : slot.start_time >= clock + Hours(1))
         IN [available |-> Len(available_slots) > 0, message |-> "found",
             slots |-> available_slots]

\* returns the response of check_today_availability
check_today_availability(cal, clock, readOk) ==
    LET today == DateOf(clock) IN
    IF is_weekend(today)
    THEN [available |-> FALSE, message |-> "closed", slots |-> <<>>]
    ELSE IF HourOf(clock) >= CLINIC_CLOSE_HOUR
    THEN [available |-> FALSE, message |-> "over", slots |-> <<>>]
    ELSE LET slots == generate_alternative_slots(cal, clock, today,
                                                 APPOINTMENT_DURATION, readOk)
             available_slots ==
                 SelectSeq(slots, LAMBDA slot : slot.start_time > clock + Hours(1))
         IN [available |-> Len(available_slots) > 0, message |-> "found",
             slots |-> available_slots]

(***************************************************************************)
(* Calendar dates: year, month and day of a day index, as datetime.date    *)
(* computes them.                                                          *)
(***************************************************************************)
EpochYear == 2000 + 24

IsLeap(y) == (y % 4 = 0 /\ y % 100 # 0) \/ y % 400 = 0

YearLength(y) == IF IsLeap(y) THEN 366 ELSE 365

DaysInMonth(y, m) ==
    IF m = 2 THEN (IF IsLeap(y) THEN 29 ELSE 28)
    ELSE IF m \in {4, 6, 9, 11} THEN 30
    ELSE 31

RECURSIVE DaysBeforeYear(_)
DaysBeforeYear(y) ==
    IF y <= EpochYear THEN 0 ELSE DaysBeforeYear(y - 1) + YearLength(y - 1)

RECURSIVE DaysBeforeMonth(_, _)
DaysBeforeMonth(y, m) ==
    IF m <= 1 THEN 0 ELSE DaysBeforeMonth(y, m - 1) + DaysInMonth(y, m - 1)

\* date(y, m, d) exists
ValidDate(y, m, d) == m \in 1..12 /\ d \in 1..DaysInMonth(y, m)

\* date(y, m, d)
ToDate(y, m, d) == DaysBeforeYear(y) + DaysBeforeMonth(y, m) + (d - 1)

\* d.year, d.month, d.day
YearOf(n) ==
    CHOOSE y \in EpochYear..(EpochYear + n \div 365) :
        DaysBeforeYear(y) <= n /\ n < DaysBeforeYear(y + 1)

MonthOf(n) ==
    CHOOSE m \in 1..12 :
        /\ ToDate(YearOf(n), m, 1) <= n
        /\ n < ToDate(YearOf(n), m, 1) + DaysInMonth(YearOf(n), m)

DayOfMonth(n) == n - ToDate(YearOf(n), MonthOf(n), 1) + 1

(***************************************************************************)
(* Natural date resolver.  The text is taken as the set of keywords it     *)
(* contains and the month and day it names (month 0: none).                *)
(***************************************************************************)
DaysOfWeek ==
    <<"monday", "tuesday", "wednesday", "thursday", "friday", "saturday", "sunday">>

\* while is_weekend(d): d += timedelta(days=1)
RECURSIVE SkipWeekend(_)
SkipWeekend(d) == IF is_weekend(d) THEN SkipWeekend(d + 1) ELSE d

\* the generic parsing of a month and day: parser.parse with the current
\* year, the year advanced when the date is not after today; the fallback
\* to tomorrow when parse or replace raises
ParseRegularDate(today, date_input) ==
    LET y == YearOf(today)
        m == date_input.month
        d == date_input.day
    IN IF ~ValidDate(y, m, d) THEN SkipWeekend(today + 1)
       ELSE LET parsed_date == ToDate(y, m, d)
                advance == /\ parsed_date <= today
                           /\ m <= MonthOf(today)
                           /\ d <= DayOfMonth(today)
            IN IF advance /\ ~ValidDate(y + 1, m, d) THEN SkipWeekend(today + 1)
               ELSE LET final == IF advance THEN ToDate(y + 1, m, d) ELSE parsed_date
                    IN IF is_weekend(final) THEN final + 1 ELSE final

\* the resolver with a day name resolved to its next occurrence as it is
parse_natural_date_any_day(clock, date_input) ==
    LET today == DateOf(clock)
        current_hour == HourOf(clock)
        named == {i \in 1..Len(DaysOfWeek) : DaysOfWeek[i] \in date_input.words}
    IN IF "today" \in date_input.words
       THEN IF current_hour < CLINIC_CLOSE_HOUR /\ ~is_weekend(today)
            THEN today
            ELSE SkipWeekend(today + 1)
       ELSE IF "tomorrow" \in date_input.words
       THEN SkipWeekend(today + 1)
       ELSE IF named # {}
       THEN LET day_num == (CHOOSE i \in named : \A j \in named : i <= j) - 1
                first == (day_num - Weekday(today)) % 7
                late == IF first = 0 /\ current_hour >= CLINIC_CLOSE_HOUR
                        THEN 7 ELSE first
                days_ahead == IF late = 0 THEN 7 ELSE late
            IN today + days_ahead
       ELSE IF "next week" \in date_input.words
       THEN SkipWeekend(today + 7)
       ELSE ParseRegularDate(today, date_input)

parse_natural_date(clock, date_input) ==
    LET today == DateOf(clock)
        current_hour == HourOf(clock)
        named == {i \in 1..Len(DaysOfWeek) : DaysOfWeek[i] \in date_input.words}
    IN IF "today" \in date_input.words
       THEN IF current_hour < CLINIC_CLOSE_HOUR /\ ~is_weekend(today)
            THEN today
            ELSE SkipWeekend(today + 1)
       ELSE IF "tomorrow" \in date_input.words
       THEN SkipWeekend(today + 1)
       ELSE IF named # {}
       THEN LET day_num == (CHOOSE i \in named : \A j \in named : i <= j) - 1
                first == (day_num - Weekday(today)) % 7
                late == IF first = 0 /\ current_hour >= CLINIC_CLOSE_HOUR
                        THEN 7 ELSE first
                days_ahead == IF late = 0 THEN 7 ELSE late
                target_date == today + days_ahead
            IN IF Weekday(target_date) = 6 THEN target_date + 1 ELSE target_date
       ELSE IF "next week" \in date_input.words
       THEN SkipWeekend(today + 7)
       ELSE ParseRegularDate(today, date_input)

(***************************************************************************)
(* Inputs of the model.                                                    *)
(***************************************************************************)
Saturday == 4 + 1
Sunday == Saturday + 1
Monday == Sunday + 1

\* clock values: Sat 09:59:59, Sat 10:00:01, Mon 10:10:00
NowValues ==
    {At(Saturday, 9, 59) + 59, At(Saturday, 10, 0) + 1, At(Monday, 10, 10)}

ReqDates == {Saturday, Sunday, Monday}
ReqTimes == {<<10, 0>>, <<11, 0>>, <<18, 30>>}
ReqDurations == {30, 60}

GoodPhone == <<"0", "3", "2", "1", "-", "1", "2", "3", "4", "5", "6", "7">>
BadPhone == <<"1", "2", "3", "4", "5">>

MakeRequest(name, phone, d, t, dur) ==
    [patient_name |-> name, patient_phone |-> phone, appointment_date |-> d,
     appointment_time |-> t, duration_minutes |-> dur]

\* requests whose name and phone pass the field checks
GoodRequests ==
    {MakeRequest("Ali", GoodPhone, d, t, dur) :
        d \in ReqDates, t \in ReqTimes, dur \in ReqDurations}

\* requests with a missing name, a missing phone or a malformed phone
BadFieldRequests ==
    {MakeRequest(f[1], f[2], d, <<11, 0>>, 60) :
        f \in {<<"", GoodPhone>>, <<"Ali", <<>>>>, <<"Ali", BadPhone>>},
        d \in {Sunday, Monday}}

Requests == GoodRequests \cup BadFieldRequests

\* requests placed around the Monday 10:00-11:00 event: 15, 5 and 0 minutes
\* before it, inside it, 10 and 15 minutes after it
GapRequests ==
    {MakeRequest("Ali", GoodPhone, Monday, f[1], f[2]) :
        f \in {<<<<9, 0>>, 45>>, <<<<9, 10>>, 45>>, <<<<9, 15>>, 45>>,
               <<<<10, 15>>, 30>>, <<<<11, 10>>, 30>>, <<<<11, 15>>, 30>>}}

\* the requests of SpecSeq: positive durations, among them 45 minutes, which
\* leaves a gap of exactly BUFFER_TIME before the next full hour
SeqRequests ==
    {r \in Requests : r.duration_minutes > 0} \cup
    {MakeRequest("Ali", GoodPhone, d, t, 45) :
        d \in {Saturday, Monday}, t \in {<<10, 0>>, <<11, 0>>}} \cup
    {MakeRequest("Ali", GoodPhone, Saturday, <<10, 0>>, 24 * 60)}

\* the requests of two clients racing for Monday morning
RaceRequests ==
    {MakeRequest("Ali", GoodPhone, Monday, t, dur) :
        t \in {<<10, 0>>, <<11, 0>>}, dur \in {45, 60}}

NoRequest == MakeRequest("", <<>>, 0, <<0, 0>>, 0)

\* events found in the calendar at start-up, put there by other clients
ExtTimed == [id |-> 1, start |-> At(Monday, 10, 0), end |-> At(Monday, 11, 0),
             timed |-> TRUE, origin |-> "ext",
             summary |-> "appointment"]
ExtAllDay == [id |-> 1, start |-> At(Monday, 0, 0), end |-> At(Monday + 1, 0, 0),
              timed |-> FALSE, origin |-> "ext",
              summary |-> "appointment"]
InitCalendars == {{}, {ExtTimed}, {ExtAllDay}}

\* the calendars the gap requests are booked into
GapCalendars == {{ExtTimed}, {ExtAllDay}, {ExtTimed, ExtAllDay}}

\* one appointment 10:00-11:00 on the Tuesday of the week that follows
Tuesday == Monday + 1
ExtTuesday == [id |-> 1, start |-> At(Tuesday, 10, 0), end |-> At(Tuesday, 11, 0),
               timed |-> TRUE, origin |-> "ext",
               summary |-> "appointment"]
ScenarioCalendars == {{ExtTuesday}, {ExtTuesday, ExtTimed}}

\* the clock values, calendar snapshots and durations of slot queries
ExtSaturday == [id |-> 1, start |-> At(Saturday, 11, 30), end |-> At(Saturday, 12, 30),
                timed |-> TRUE, origin |-> "ext",
                summary |-> "appointment"]
SlotNowValues ==
    {At(Saturday, 7, 10), At(Saturday, 10, 10), At(Saturday, 10, 40) + 30,
     At(Saturday, 17, 45), At(Saturday, 23, 30), At(Monday, 10, 0)}
ExtSunday == [id |-> 1, start |-> At(Sunday, 10, 0), end |-> At(Sunday, 11, 0),
              timed |-> TRUE, origin |-> "ext",
              summary |-> "appointment"]
SlotCalendars == {{}, {ExtTimed}, {ExtAllDay, ExtSunday}, {ExtSaturday, ExtTimed}}
SlotDurations == <<60, 0, 0 - 30>>

\* date texts: keywords alone and together, month-and-day dates, text that
\* names nothing
Phrase(words) == [words |-> words, month |-> 0, day |-> 0]
MonthDay(m, d) == [words |-> {}, month |-> m, day |-> d]

DateInputs ==
    {Phrase({w}) : w \in {"today", "tomorrow", "next week"}}
    \cup {Phrase({DaysOfWeek[i]}) : i \in 1..Len(DaysOfWeek)}
    \cup {Phrase({"today", "tomorrow"}), Phrase({"next week", "sunday"}), Phrase({})}
    \cup {MonthDay(f[1], f[2]) :
            f \in {<<1, 6>>, <<1, 7>>, <<2, 10>>, <<2, 27>>, <<2, 29>>, <<3, 20>>,
                   <<3, 24>>, <<4, 31>>, <<12, 31>>}}

\* clock values of the resolver and of the availability check: Saturday
\* 6 January before opening, on the hour, past the hour, late and after
\* closing, the Sunday and Monday after it, 29 February, 20 March and
\* 31 December 2024
AssistNowValues ==
    {At(Saturday, 7, 10), At(Saturday, 10, 0), At(Saturday, 10, 10),
     At(Saturday, 18, 10), At(Saturday, 19, 5), At(Sunday, 10, 0),
     At(Monday, 10, 0), At(ToDate(EpochYear, 2, 29), 10, 0),
     At(ToDate(EpochYear, 3, 20), 10, 0), At(ToDate(EpochYear, 12, 31), 20, 0)}

(***************************************************************************)
(* Responses.  last is the response of the step just taken (NoResult when  *)
(* the step returns none); slotsOut is the response of the latest slot     *)
(* query, kept while the clock and the calendar are those the query saw.   *)
(***************************************************************************)
NoResult ==
    [op |-> "none", proc |-> 0, req |-> NoRequest, kind |-> "none",
     conflicting |-> NoEvent, alternatives |-> <<>>, event |-> NoEvent,
     read |-> "none"]

NoSlots ==
    [date |-> 0, duration |-> 0, readOk |-> FALSE,
     resp |-> [success |-> FALSE, message |-> "unset", available_slots |-> <<>>]]

\* no date resolved yet, no availability check made yet
NoResolved == [input |-> Phrase({}), date |-> 0 - 1]

NoToday ==
    [readOk |-> FALSE,
     resp |-> [available |-> FALSE, message |-> "unset", slots |-> <<>>]]

BookResult(p, r, kind, conflicting, alternatives, event, read) ==
    [op |-> "book", proc |-> p, req |-> r, kind |-> kind,
     conflicting |-> conflicting, alternatives |-> alternatives,
     event |-> event, read |-> read]

\* naive_datetime, naive_end_datetime of a request
ReqStart(r) == At(r.appointment_date, r.appointment_time[1], r.appointment_time[2])
ReqEnd(r) == ReqStart(r) + Minutes(r.duration_minutes)

\* the checks of book_appointment that precede the calendar read
BookPrecheck(clock, r) ==
    IF r.patient_name = "" \/ r.patient_phone = <<>> THEN "missing_field"
    ELSE IF ~validate_phone_number(r.patient_phone) THEN "invalid_phone"
    ELSE validate_appointment_request(clock, ReqStart(r), ReqEnd(r))

\* the read of the day's events and the conflict check of book_appointment
BookConflict(cal, r, readOk) ==
    check_time_conflict(ReqStart(r), ReqEnd(r),
                        get_existing_appointments(cal, r.appointment_date, readOk))

\* alternatives[:5]
FirstFive(s) == SubSeq(s, 1, IF Len(s) < 5 THEN Len(s) ELSE 5)

\* the rejection of a conflicting request, with its alternatives
ConflictResult(cal, clock, p, r, conflicting, readOk, altReadOk) ==
    BookResult(p, r, "conflict", conflicting,
               FirstFive(generate_alternative_slots(cal, clock, r.appointment_date,
                                                    r.duration_minutes, altReadOk)),
               NoEvent, IF readOk THEN "ok" ELSE "failed")

\* the event that events().insert adds for a request
NewEvent(cal, r) ==
    [id |-> 10 + Cardinality({e \in cal : e.start = ReqStart(r) /\ e.end = ReqEnd(r)}),
     start |-> ReqStart(r), end |-> ReqEnd(r), timed |-> TRUE, origin |-> "book",
     summary |-> "appointment"]

ReadTag(readOk) == IF readOk THEN "ok" ELSE "failed"

AllIdle == \A q \in Procs : pc[q] = "idle"

InFlightWrites == Cardinality({q \in Procs : pc[q] = "write"})

Booked(cal) == {e \in cal : e.origin = "book"}

\* a calendar call returns or raises
IOOutcomes == <<TRUE, FALSE>>

\* the outcome of a calendar call that the handler does not reach is fixed
IOReached(pre, has_conflict, readOk, altReadOk, writeOk) ==
    /\ pre # "valid" => readOk /\ altReadOk /\ writeOk
    /\ pre = "valid" /\ has_conflict => writeOk
    /\ pre = "valid" /\ ~has_conflict => altReadOk

(***************************************************************************)
(* Chat sessions (models/conversation.py) and the dialogue state machine   *)
(* (services/intent_processor.py).  A session is a record                  *)
(*   [stage, booking_data, last_intent, created_at, last_activity]         *)
(* booking_data being the set of the booking fields that hold a value;     *)
(* reply is the answer to the latest chat request, with the outcome of the *)
(* calendar booking the request made ("none" when it made none).           *)
(***************************************************************************)
SESSION_TIMEOUT == Minutes(30)

SessionIds == {"s1"}

NoSession ==
    [stage |-> "none", booking_data |-> {}, last_intent |-> "none",
     created_at |-> 0 - 1, last_activity |-> 0 - 1]

\* ConversationState() inside a new session
NewSession(clock) ==
    [stage |-> "initial", booking_data |-> {}, last_intent |-> "none",
     created_at |-> clock, last_activity |-> clock]

NoReply == [op |-> "none", session |-> "none", type |-> "none", booking |-> "none"]

ChatReply(op, s, type, booking) ==
    [op |-> op, session |-> s, type |-> type, booking |-> booking]

\* valid_intents of the intent analysis
Intents ==
    {"booking", "availability_check", "reschedule", "cancel", "emergency",
     "general_inquiry", "confirmation"}

BookingFields == {"patient_name", "date", "time"}

\* the entities an analysed message carries
EntitySets == {{}, {"patient_name", "date"}, {"time"}, {"patient_name", "date", "time"}}

\* the calendar booking returns success, returns a failure or raises
BookingOutcomes == <<"success", "failure", "raised">>

\* the answers of an availability check
AvailabilityTypes == <<"text", "slots", "error">>

\* SessionManager.cleanup_expired_sessions
cleanup_expired_sessions(ss, clock) ==
    [s \in SessionIds |->
        IF ss[s] # NoSession /\ clock - ss[s].last_activity > SESSION_TIMEOUT
        THEN NoSession ELSE ss[s]]

\* SessionManager.get_session: the session, created when absent, with its
\* last activity set to the clock
get_session(ss, s, clock) ==
    IF ss[s] = NoSession THEN NewSession(clock)
    ELSE [ss[s] EXCEPT !.last_activity = clock]

\* ConversationState.is_booking_complete
is_booking_complete(state) == BookingFields \subseteq state.booking_data

\* ConversationState.clear_booking_data
clear_booking_data(state) == [state EXCEPT !.booking_data = {}, !.stage = "initial"]

\* IntentProcessor._determine_next_stage
determine_next_stage(current_stage, intent, booking_data) ==
    IF intent = "emergency" THEN "emergency_response"
    ELSE IF intent = "booking"
    THEN IF "patient_name" \notin booking_data THEN "collecting_name"
         ELSE IF "date" \notin booking_data THEN "collecting_date"
         ELSE IF "time" \notin booking_data THEN "showing_slots"
         ELSE "confirming_appointment"
    ELSE IF intent = "availability_check" THEN "showing_slots"
    ELSE IF intent = "confirmation"
    THEN IF current_stage = "confirming_appointment" THEN "booking_complete"
         ELSE IF current_stage = "showing_slots" THEN "confirming_appointment"
         ELSE current_stage
    ELSE IF intent \in {"reschedule", "cancel"} THEN "handling_changes"
    ELSE "general_inquiry"

\* IntentProcessor._update_session_state
update_session_state(state, intent, entities) ==
    LET data == state.booking_data \cup entities
    IN [state EXCEPT !.last_intent = intent,
                     !.booking_data = data,
                     !.stage = determine_next_stage(state.stage, intent, data)]

\* IntentProcessor._execute_booking: returns the state and the reply type.
\* booking_data is the dictionary of the session itself, so after
\* clear_booking_data the success text, which reads booking_data['date'],
\* raises KeyError and the handler of exceptions answers
execute_booking(state, outcome) ==
    IF outcome = "success"
    THEN LET cleared == [clear_booking_data(state) EXCEPT !.stage = "booking_complete"]
         IN [state |-> cleared,
             type |-> IF "date" \in cleared.booking_data /\ "time" \in cleared.booking_data
                      THEN "booking_success" ELSE "error",
             booking |-> outcome]
    ELSE IF outcome = "failure"
    THEN [state |-> state, type |-> "booking_error", booking |-> outcome]
    ELSE [state |-> state, type |-> "error", booking |-> outcome]

\* IntentProcessor._handle_confirmation_intent, run on the updated state
handle_confirmation_intent(state, outcome) ==
    IF state.stage = "confirming_appointment" /\ is_booking_complete(state)
    THEN execute_booking(state, outcome)
    ELSE [state |-> state, type |-> "text", booking |-> "none"]

(***************************************************************************)
(* Initial state.                                                          *)
(***************************************************************************)
InitCommon ==
    /\ now = At(Saturday, 9, 59) + 59
    /\ pc = [p \in Procs |-> "idle"]
    /\ req = [p \in Procs |-> NoRequest]
    /\ conf = [p \in Procs |-> NoEvent]
    /\ rdok = [p \in Procs |-> FALSE]
    /\ last = NoResult
    /\ slotsOut = NoSlots
    /\ resolved = NoResolved
    /\ todayOut = NoToday
    /\ sessions = [s \in SessionIds |-> NoSession]
    /\ reply = NoReply

Init == InitCommon /\ calendar \in InitCalendars

(***************************************************************************)
(* Actions.                                                                *)
(***************************************************************************)
\* the clock advances
Tick ==
    /\ \E t \in NowValues : t > now /\ now' = t
    /\ last' = NoResult
    /\ slotsOut' = NoSlots
    /\ UNCHANGED <<calendar, pc, req, conf, rdok, resolved, todayOut,
                 sessions, reply>>

\* book_appointment with the insert tried again after it raised
Book_retry(p, r, readOk, altReadOk, writeOk, cap) ==
    /\ AllIdle
    /\ LET pre == BookPrecheck(now, r)
           c == BookConflict(calendar, r, readOk)
       IN /\ IOReached(pre, c.has_conflict, readOk, altReadOk, writeOk)
          /\ IF pre # "valid"
             THEN /\ last' = BookResult(p, r, pre, NoEvent, <<>>, NoEvent, "none")
                  /\ UNCHANGED calendar
             ELSE IF c.has_conflict
             THEN /\ last' = ConflictResult(calendar, now, p, r, c.event,
                                            readOk, altReadOk)
                  /\ UNCHANGED calendar
             ELSE IF writeOk
             THEN /\ Cardinality(Booked(calendar)) < cap
                  /\ calendar' = calendar \cup {NewEvent(calendar, r)}
                  /\ last' = BookResult(p, r, "success", NoEvent, <<>>,
                                        NewEvent(calendar, r), ReadTag(readOk))
             ELSE /\ last' = BookResult(p, r, "system_error", NoEvent, <<>>, NoEvent,
                                        ReadTag(readOk))
                  /\ calendar' = calendar \cup {NewEvent(calendar, r)}
    /\ slotsOut' = NoSlots
    /\ UNCHANGED <<now, pc, req, conf, rdok, resolved, todayOut,
                 sessions, reply>>

\* book_appointment, run from call to return with no other call in between
Book(p, r, readOk, altReadOk, writeOk, cap) ==
    /\ AllIdle
    /\ LET pre == BookPrecheck(now, r)
           c == BookConflict(calendar, r, readOk)
       IN /\ IOReached(pre, c.has_conflict, readOk, altReadOk, writeOk)
          /\ IF pre # "valid"
             THEN /\ last' = BookResult(p, r, pre, NoEvent, <<>>, NoEvent, "none")
                  /\ UNCHANGED calendar
             ELSE IF c.has_conflict
             THEN /\ last' = ConflictResult(calendar, now, p, r, c.event,
                                            readOk, altReadOk)
                  /\ UNCHANGED calendar
             ELSE IF writeOk
             THEN /\ Cardinality(Booked(calendar)) < cap
                  /\ calendar' = calendar \cup {NewEvent(calendar, r)}
                  /\ last' = BookResult(p, r, "success", NoEvent, <<>>,
                                        NewEvent(calendar, r), ReadTag(readOk))
             ELSE /\ last' = BookResult(p, r, "system_error", NoEvent, <<>>, NoEvent,
                                        ReadTag(readOk))
                  /\ UNCHANGED calendar
    /\ slotsOut' = NoSlots
    /\ UNCHANGED <<now, pc, req, conf, rdok, resolved, todayOut,
                 sessions, reply>>

\* book_appointment up to the conflict check: field checks, business rules,
\* the read of the day's events and check_time_conflict
BookCheck(p, r, readOk, cap) ==
    /\ pc[p] = "idle"
    /\ LET pre == BookPrecheck(now, r)
           c == BookConflict(calendar, r, readOk)
       IN IF pre # "valid"
          THEN /\ last' = BookResult(p, r, pre, NoEvent, <<>>, NoEvent, "none")
               /\ UNCHANGED <<pc, req, conf, rdok>>
          ELSE /\ \/ c.has_conflict
                  \/ Cardinality(Booked(calendar)) + InFlightWrites < cap
               /\ pc' = [pc EXCEPT ![p] = IF c.has_conflict THEN "alts" ELSE "write"]
               /\ req' = [req EXCEPT ![p] = r]
               /\ conf' = [conf EXCEPT ![p] = c.event]
               /\ rdok' = [rdok EXCEPT ![p] = readOk]
               /\ last' = NoResult
    /\ slotsOut' = NoSlots
    /\ UNCHANGED <<now, calendar, resolved, todayOut,
                 sessions, reply>>

\* the conflict branch: generate_alternative_slots and the rejection
BookAlternatives(p, altReadOk) ==
    /\ pc[p] = "alts"
    /\ last' = ConflictResult(calendar, now, p, req[p], conf[p], rdok[p], altReadOk)
    /\ pc' = [pc EXCEPT ![p] = "idle"]
    /\ req' = [req EXCEPT ![p] = NoRequest]
    /\ conf' = [conf EXCEPT ![p] = NoEvent]
    /\ rdok' = [rdok EXCEPT ![p] = FALSE]
    /\ slotsOut' = NoSlots
    /\ UNCHANGED <<now, calendar, resolved, todayOut,
                 sessions, reply>>

\* events().insert and the response; a failed insert raises and the handler
\* returns the system error
BookWrite(p, writeOk) ==
    /\ pc[p] = "write"
    /\ IF writeOk
       THEN /\ calendar' = calendar \cup {NewEvent(calendar, req[p])}
            /\ last' = BookResult(p, req[p], "success", NoEvent, <<>>,
                                  NewEvent(calendar, req[p]), ReadTag(rdok[p]))
       ELSE /\ last' = BookResult(p, req[p], "system_error", NoEvent, <<>>, NoEvent,
                                  ReadTag(rdok[p]))
            /\ UNCHANGED calendar
    /\ pc' = [pc EXCEPT ![p] = "idle"]
    /\ req' = [req EXCEPT ![p] = NoRequest]
    /\ conf' = [conf EXCEPT ![p] = NoEvent]
    /\ rdok' = [rdok EXCEPT ![p] = FALSE]
    /\ slotsOut' = NoSlots
    /\ UNCHANGED <<now, resolved, todayOut,
                 sessions, reply>>

\* get_available_slots_for_date
GetSlots(d, dur, readOk) ==
    /\ AllIdle
    /\ slotsOut' = [date |-> d, duration |-> dur, readOk |-> readOk,
                    resp |-> get_available_slots_for_date(calendar, now, d, dur, readOk)]
    /\ last' = NoResult
    /\ UNCHANGED <<now, calendar, pc, req, conf, rdok, resolved, todayOut,
                 sessions, reply>>

\* the response of cancel_appointment and reschedule_appointment
ManageResult(op, kind, conflicting, event) ==
    [op |-> op, proc |-> 1, req |-> NoRequest, kind |-> kind,
     conflicting |-> conflicting, alternatives |-> <<>>, event |-> event,
     read |-> "ok"]

\* the event as cancel_appointment writes it back: the title is prefixed,
\* start and end are those that events().get returned
CancelledEvent(e) == [e EXCEPT !.summary = "cancelled"]

\* cancel_appointment: events().get, the events().update of the title and
\* the description; either call may raise
Cancel(e, getOk, updOk) ==
    /\ AllIdle
    /\ e \in calendar
    /\ ~getOk => updOk
    /\ IF getOk /\ updOk
       THEN /\ calendar' = (calendar \ {e}) \cup {CancelledEvent(e)}
            /\ last' = ManageResult("cancel", "success", NoEvent, CancelledEvent(e))
       ELSE /\ last' = ManageResult("cancel", "error", NoEvent, e)
            /\ UNCHANGED calendar
    /\ slotsOut' = NoSlots
    /\ UNCHANGED <<now, pc, req, conf, rdok, resolved, todayOut,
                 sessions, reply>>

\* the event as reschedule_appointment writes it back
MovedEvent(e, new_datetime, new_end_datetime) ==
    [e EXCEPT !.start = new_datetime, !.end = new_end_datetime,
              !.timed = TRUE, !.origin = "moved"]

\* reschedule_appointment: events().get, the read of the new date, the
\* conflict check and the events().update of start and end
Reschedule(e, new_date, new_time, duration_minutes, getOk, readOk, updOk) ==
    /\ AllIdle
    /\ e \in calendar
    /\ LET new_datetime == At(new_date, new_time[1], new_time[2])
           new_end_datetime == new_datetime + Minutes(duration_minutes)
           existing_events == get_existing_appointments(calendar, new_date, readOk)
           c == check_time_conflict(new_datetime, new_end_datetime, existing_events)
           moved == MovedEvent(e, new_datetime, new_end_datetime)
       IN /\ ~getOk => readOk /\ updOk
          /\ getOk /\ c.has_conflict => updOk
          /\ IF ~getOk
             THEN /\ last' = ManageResult("reschedule", "error", NoEvent, e)
                  /\ UNCHANGED calendar
             ELSE IF c.has_conflict
             THEN /\ last' = ManageResult("reschedule", "conflict", c.event, e)
                  /\ UNCHANGED calendar
             ELSE IF updOk
             THEN /\ moved \notin calendar \ {e}
                  /\ calendar' = (calendar \ {e}) \cup {moved}
                  /\ last' = ManageResult("reschedule", "success", NoEvent, moved)
             ELSE /\ last' = ManageResult("reschedule", "error", NoEvent, e)
                  /\ UNCHANGED calendar
    /\ slotsOut' = NoSlots
    /\ UNCHANGED <<now, pc, req, conf, rdok, resolved, todayOut,
                 sessions, reply>>

\* IntentProcessor._process_intent, run on the updated state
process_intent(state, intent, outcome, avail) ==
    IF intent = "booking"
    THEN [state |-> state, booking |-> "none",
          type |-> IF is_booking_complete(state) THEN "confirmation" ELSE "text"]
    ELSE IF intent = "availability_check"
    THEN [state |-> state, booking |-> "none", type |-> avail]
    ELSE IF intent = "confirmation" THEN handle_confirmation_intent(state, outcome)
    ELSE IF intent = "emergency"
    THEN [state |-> state, booking |-> "none", type |-> "emergency"]
    ELSE IF intent \in {"reschedule", "cancel"}
    THEN [state |-> state, booking |-> "none", type |-> "modification"]
    ELSE [state |-> state, booking |-> "none", type |-> "inquiry"]

\* IntentProcessor.process_message
process_message(state, intent, entities, outcome, avail) ==
    process_intent(update_session_state(state, intent, entities), intent, outcome, avail)

\* the calendar booking is reached by a confirmation that finds the stage
\* 'confirming_appointment' and the booking data complete
BookingReached(state, intent, entities) ==
    LET u == update_session_state(state, intent, entities)
    IN intent = "confirmation" /\ u.stage = "confirming_appointment"
       /\ is_booking_complete(u)

\* POST /chat: expired sessions are removed, the session is fetched or
\* created and the message is processed
Chat(s, intent, entities, outcome, avail) ==
    LET session == get_session(cleanup_expired_sessions(sessions, now), s, now)
        r == process_message(session, intent, entities, outcome, avail)
    IN /\ ~BookingReached(session, intent, entities) => outcome = BookingOutcomes[1]
       /\ intent # "availability_check" => avail = AvailabilityTypes[1]
       /\ sessions' = [cleanup_expired_sessions(sessions, now) EXCEPT ![s] = r.state]
       /\ reply' = ChatReply("chat", s, r.type, r.booking)
       /\ UNCHANGED <<now, calendar, pc, req, conf, rdok, last, slotsOut, resolved,
                      todayOut>>

\* POST /chat/confirm-booking with a selected time: the session is fetched or
\* created, the booking data must hold the name and the date, then
\* confirm_appointment_booking stores the time and books
ConfirmBooking(s, outcome) ==
    LET session == get_session(sessions, s, now)
        timed == [session EXCEPT !.booking_data = @ \cup {"time"}]
    IN /\ IF ~({"patient_name", "date"} \subseteq session.booking_data)
          THEN /\ outcome = BookingOutcomes[1]
               /\ sessions' = [sessions EXCEPT ![s] = session]
               /\ reply' = ChatReply("confirm_booking", s, "incomplete", "none")
          ELSE IF outcome = "success"
          THEN /\ sessions' = [sessions EXCEPT ![s] = clear_booking_data(timed)]
               /\ reply' = ChatReply("confirm_booking", s, "booked", outcome)
          ELSE /\ sessions' = [sessions EXCEPT ![s] = timed]
               /\ reply' = ChatReply("confirm_booking", s, "not_booked", outcome)
       /\ UNCHANGED <<now, calendar, pc, req, conf, rdok, last, slotsOut, resolved,
                      todayOut>>

\* GET /chat/session/<session_id>
SessionInfo(s) ==
    /\ sessions' = [sessions EXCEPT ![s] = get_session(sessions, s, now)]
    /\ reply' = ChatReply("session_info", s, "info", "none")
    /\ UNCHANGED <<now, calendar, pc, req, conf, rdok, last, slotsOut, resolved,
                   todayOut>>

\* GET /chat/sessions/stats
SessionStats ==
    /\ sessions' = cleanup_expired_sessions(sessions, now)
    /\ reply' = ChatReply("session_stats", "none", "stats", "none")
    /\ UNCHANGED <<now, calendar, pc, req, conf, rdok, last, slotsOut, resolved,
                   todayOut>>

\* parse_natural_date
ParseNaturalDate(date_input) ==
    /\ resolved' = [input |-> date_input, date |-> parse_natural_date(now, date_input)]
    /\ UNCHANGED <<now, calendar, pc, req, conf, rdok, last, slotsOut, todayOut,
                 sessions, reply>>

\* check_today_availability
CheckToday(readOk) ==
    /\ todayOut' = [readOk |-> readOk,
                    resp |-> check_today_availability(calendar, now, readOk)]
    /\ UNCHANGED <<now, calendar, pc, req, conf, rdok, last, slotsOut, resolved,
                 sessions, reply>>

(***************************************************************************)
(* Spec: bookings made one at a time; calendar reads and writes may fail.  *)
(***************************************************************************)
Next ==
    \/ Tick
    \/ \E r \in Requests, i, j, k \in 1..Len(IOOutcomes) :
           Book(1, r, IOOutcomes[i], IOOutcomes[j], IOOutcomes[k], MaxBooked)

Spec == Init /\ [][Next]_vars

(***************************************************************************)
(* SpecSeq: bookings of positive duration made one at a time into an empty *)
(* calendar, every calendar read and write succeeding.                     *)
(***************************************************************************)
InitSeq == InitCommon /\ calendar = {}

NextSeq ==
    \/ Tick
    \/ \E r \in SeqRequests : Book(1, r, TRUE, TRUE, TRUE, MaxBookedSeq)

SpecSeq == InitSeq /\ [][NextSeq]_vars

(***************************************************************************)
(* SpecGap: bookings placed around an event of the calendar, made one at a *)
(* time with working calendar calls.                                       *)
(***************************************************************************)
InitGap == InitCommon /\ calendar \in GapCalendars

NextGap ==
    \/ Tick
    \/ \E r \in GapRequests : Book(1, r, TRUE, TRUE, TRUE, MaxBookedSeq)

SpecGap == InitGap /\ [][NextGap]_vars

(***************************************************************************)
(* SpecSlots: a slot query for a date and a duration, at some clock value  *)
(* on some calendar snapshot, and the booking of a slot it returned, at    *)
(* once and with working calendar calls.                                   *)
(***************************************************************************)
InitSlots ==
    /\ now \in SlotNowValues
    /\ calendar \in SlotCalendars
    /\ pc = [p \in Procs |-> "idle"]
    /\ req = [p \in Procs |-> NoRequest]
    /\ conf = [p \in Procs |-> NoEvent]
    /\ rdok = [p \in Procs |-> FALSE]
    /\ last = NoResult
    /\ slotsOut = NoSlots
    /\ resolved = NoResolved
    /\ todayOut = NoToday
    /\ sessions = [s \in SessionIds |-> NoSession]
    /\ reply = NoReply

\* the booking request a client makes from a returned slot: the date and
\* duration of the query and the slot's time_24h
SlotRequest(so, i) ==
    MakeRequest("Ali", GoodPhone, so.date, so.resp.available_slots[i].time_24h,
                so.duration)

NextSlots ==
    \/ \E d \in ReqDates, k \in 1..Len(SlotDurations), i \in 1..Len(IOOutcomes) :
           Booked(calendar) = {} /\ GetSlots(d, SlotDurations[k], IOOutcomes[i])
    \/ \E i \in 1..Len(slotsOut.resp.available_slots) :
           /\ slotsOut.readOk
           /\ Book(1, SlotRequest(slotsOut, i), TRUE, TRUE, TRUE, 1)

SpecSlots == InitSlots /\ [][NextSlots]_vars

(***************************************************************************)
(* SpecScenario: slot queries for a Tuesday that holds one appointment,    *)
(* 10:00-11:00, and the booking of a returned slot; calendar calls work.   *)
(***************************************************************************)
InitScenario ==
    /\ now \in SlotNowValues
    /\ calendar \in ScenarioCalendars
    /\ pc = [p \in Procs |-> "idle"]
    /\ req = [p \in Procs |-> NoRequest]
    /\ conf = [p \in Procs |-> NoEvent]
    /\ rdok = [p \in Procs |-> FALSE]
    /\ last = NoResult
    /\ slotsOut = NoSlots
    /\ resolved = NoResolved
    /\ todayOut = NoToday
    /\ sessions = [s \in SessionIds |-> NoSession]
    /\ reply = NoReply

NextScenario ==
    \/ GetSlots(Tuesday, APPOINTMENT_DURATION, TRUE)
    \/ \E i \in 1..Len(slotsOut.resp.available_slots) :
           Book(1, SlotRequest(slotsOut, i), TRUE, TRUE, TRUE, MaxBooked)

SpecScenario == InitScenario /\ [][NextScenario]_vars

(***************************************************************************)
(* SpecRebook: bookings into an empty calendar, each followed by slot      *)
(* queries and further bookings; calendar reads and writes may fail.       *)
(***************************************************************************)
NextRebook ==
    \/ Tick
    \/ \E r \in RaceRequests, i, j, k \in 1..Len(IOOutcomes) :
           Book(1, r, IOOutcomes[i], IOOutcomes[j], IOOutcomes[k], MaxBookedSeq)
    \/ \E dur \in ReqDurations, i \in 1..Len(IOOutcomes) :
           GetSlots(Monday, dur, IOOutcomes[i])

SpecRebook == InitSeq /\ [][NextRebook]_vars

(***************************************************************************)
(* SpecManage: appointments are booked, cancelled and rescheduled one call *)
(* at a time.  Reads of a day's events succeed; events().get and           *)
(* events().update may raise.                                              *)
(***************************************************************************)
MoveDates == {Saturday, Sunday, Monday}
MoveTimes == {<<8, 0>>, <<10, 0>>, <<11, 30>>}

NextManage ==
    \/ Tick
    \/ \E r \in RaceRequests :
           /\ Cardinality(calendar) <= MaxBooked
           /\ Book(1, r, TRUE, TRUE, TRUE, MaxBooked)
    \/ \E e \in calendar, i, j \in 1..Len(IOOutcomes) :
           Cancel(e, IOOutcomes[i], IOOutcomes[j])
    \/ \E e \in calendar, d \in MoveDates, t \in MoveTimes, i, j \in 1..Len(IOOutcomes) :
           Reschedule(e, d, t, APPOINTMENT_DURATION, IOOutcomes[i], TRUE, IOOutcomes[j])
    \/ GetSlots(Monday, APPOINTMENT_DURATION, TRUE)

SpecManage == InitSeq /\ [][NextManage]_vars

(***************************************************************************)
(* SpecChat: the requests of the chat routes to one session, in any order, *)
(* while the clock advances.                                               *)
(***************************************************************************)
NextChat ==
    \/ Tick
    \/ \E s \in SessionIds, intent \in Intents, entities \in EntitySets,
          i \in 1..Len(BookingOutcomes), j \in 1..Len(AvailabilityTypes) :
           Chat(s, intent, entities, BookingOutcomes[i], AvailabilityTypes[j])
    \/ \E s \in SessionIds, i \in 1..Len(BookingOutcomes) :
           ConfirmBooking(s, BookingOutcomes[i])
    \/ \E s \in SessionIds : SessionInfo(s)
    \/ SessionStats

SpecChat == InitSeq /\ [][NextChat]_vars

(***************************************************************************)
(* SpecRace: two clients book concurrently; the steps of their calls       *)
(* interleave at the calendar read and the calendar write, which succeed.  *)
(***************************************************************************)
NextRace ==
    \/ Tick
    \/ \E p \in Procs, r \in RaceRequests : BookCheck(p, r, TRUE, MaxBookedRace)
    \/ \E p \in Procs : BookAlternatives(p, TRUE)
    \/ \E p \in Procs : BookWrite(p, TRUE)

SpecRace == Init /\ [][NextRace]_vars

(***************************************************************************)
(* SpecAssist: the helpers of the conversation, which resolve a date text  *)
(* and check today's availability, at some clock value on some calendar.   *)
(***************************************************************************)
InitAssist ==
    /\ now \in AssistNowValues
    /\ calendar \in SlotCalendars
    /\ pc = [p \in Procs |-> "idle"]
    /\ req = [p \in Procs |-> NoRequest]
    /\ conf = [p \in Procs |-> NoEvent]
    /\ rdok = [p \in Procs |-> FALSE]
    /\ last = NoResult
    /\ slotsOut = NoSlots
    /\ resolved = NoResolved
    /\ todayOut = NoToday
    /\ sessions = [s \in SessionIds |-> NoSession]
    /\ reply = NoReply

NextAssist ==
    \/ \E date_input \in DateInputs : ParseNaturalDate(date_input)
    \/ \E i \in 1..Len(IOOutcomes) : CheckToday(IOOutcomes[i])

SpecAssist == InitAssist /\ [][NextAssist]_vars

(***************************************************************************)
(* Properties.                                                             *)
(***************************************************************************)
\* two intervals are kept apart by at least BUFFER_TIME minutes
GapKept(a, b) ==
    \/ a.end + Minutes(BUFFER_TIME) <= b.start
    \/ b.end + Minutes(BUFFER_TIME) <= a.start

\* C1: of two book() calls that run concurrently for intervals that overlap
\* or lie within the buffer of each other, at most one returns success and
\* commits: a success never commits an event closer than the buffer to an
\* event another call of book() has committed (SpecRace: reads and writes
\* succeed, so only the interleaving can bring the two together).
C1_NoConcurrentDoubleBooking ==
    last.kind = "success" =>
        \A e \in Booked(calendar) \ {last.event} : GapKept(e, last.event)

\* C2: after bookings of positive duration made one at a time into an empty
\* calendar, with working reads and writes, any two timed events of the
\* calendar are at least BUFFER_TIME minutes apart.
C2_SequentialGap ==
    \A a, b \in calendar : (a # b /\ a.timed /\ b.timed) => GapKept(a, b)

\* two events booked exactly BUFFER_TIME minutes apart on one day
C2_Witness ==
    \E a, b \in Booked(calendar) :
        /\ a.start < a.end /\ b.start < b.end
        /\ a.end + Minutes(BUFFER_TIME) = b.start

\* the rejections that are business-rule violations
BusinessRuleKinds == {"past", "outside_hours", "closed_day", "exceeds_hours"}

\* the events the calendar held when the call of the last response began
ExistingBefore == calendar \ {last.event}

\* C3: every slot returned by a slot query, booked at once with the query's
\* date and duration, a valid name and phone, the same clock value, the
\* same calendar and working calendar calls, is booked with success
\* (SpecSlots: every booking is the booking of a slot just returned).
C3_RoundTrip == last.op = "book" => last.kind = "success"

\* C4: a request whose interval directly overlaps a timed event of the
\* calendar is rejected for the scheduling conflict, the rejection names
\* the conflicting event, and nothing is committed.
C4_OverlapRejected ==
    (/\ last.op = "book"
     /\ \E e \in ExistingBefore :
            /\ e.timed
            /\ ReqStart(last.req) < e.end
            /\ ReqEnd(last.req) > e.start)
    => (/\ last.kind = "conflict"
        /\ last.conflicting # NoEvent
        /\ last.event = NoEvent)

\* C5: when the calendar read of the conflict check fails, book() returns
\* the generic failure and commits nothing.
C5_ReadFailureAborts ==
    (last.op = "book" /\ last.read = "failed")
    => (last.kind = "system_error" /\ last.event = NoEvent)

\* C6: a request that starts at now + 60 minutes - 1 second is rejected as
\* past/too soon, and one that starts at now + 60 minutes + 1 second is not.
C6_LeadTime ==
    last.op = "book" /\ last.kind \notin {"missing_field", "invalid_phone"}
    => (/\ ReqStart(last.req) = now + Minutes(60) - 1 => last.kind = "past"
        /\ ReqStart(last.req) = now + Minutes(60) + 1 => last.kind # "past")

\* C7: every slot returned for today's date starts no earlier than
\* now + 60 minutes.
C7_TodayLeadTime ==
    slotsOut.date = DateOf(now) =>
        \A i \in 1..Len(slotsOut.resp.available_slots) :
            slotsOut.resp.available_slots[i].start_time >= now + Minutes(60)

\* C8 as claimed: every request for a Sunday is rejected for a business-rule
\* violation and commits nothing.
C8_SundayBusinessRule ==
    (last.op = "book" /\ Weekday(last.req.appointment_date) = 6)
    => (last.kind \in BusinessRuleKinds /\ last.event = NoEvent)

\* C8 as amended: every request for a Sunday is rejected and commits
\* nothing, whatever its time and whatever the calendar holds; the rejection
\* is a business-rule violation when the name and phone pass the field
\* checks, and the field error otherwise.
C8_SundayRejected ==
    (last.op = "book" /\ Weekday(last.req.appointment_date) = 6)
    => (/\ last.event = NoEvent
        /\ ExistingBefore = calendar
        /\ IF last.req.patient_name # "" /\ last.req.patient_phone = GoodPhone
           THEN last.kind \in BusinessRuleKinds
           ELSE last.kind \in {"missing_field", "invalid_phone"})

\* a Sunday request inside business hours and in the future, turned away
\* because the clinic is closed
C8_Witness ==
    /\ last.op = "book"
    /\ Weekday(last.req.appointment_date) = 6
    /\ last.req.appointment_time = <<11, 0>>
    /\ last.req.duration_minutes = 60
    /\ last.kind = "closed_day"

\* C9: a slot query for a Sunday returns no slot and available = false,
\* whatever the calendar contains.
C9_ClosedDayEmpty ==
    (slotsOut # NoSlots /\ Weekday(slotsOut.date) = 6)
    => (slotsOut.resp.available_slots = <<>> /\ ~slotsOut.resp.success)

\* a Sunday queried while the calendar holds an event on that Sunday
C9_Witness ==
    /\ slotsOut # NoSlots
    /\ Weekday(slotsOut.date) = 6
    /\ \E e \in calendar : DateOf(e.start) = slotsOut.date

\* C10: every returned slot starts at or after opening and ends at or
\* before closing of the queried date.
C10_SlotsWithinHours ==
    \A i \in 1..Len(slotsOut.resp.available_slots) :
        LET s == slotsOut.resp.available_slots[i] IN
        /\ s.start_time >= At(slotsOut.date, CLINIC_OPEN_HOUR, 0)
        /\ s.end_time <= At(slotsOut.date, CLINIC_CLOSE_HOUR, 0)

\* today queried before opening: the slots run from opening to closing
C10_Witness ==
    /\ slotsOut.date = DateOf(now)
    /\ now < At(slotsOut.date, CLINIC_OPEN_HOUR, 0) - Hours(1)
    /\ slotsOut.duration = 60
    /\ \E i, j \in 1..Len(slotsOut.resp.available_slots) :
           /\ slotsOut.resp.available_slots[i].start_time
                  = At(slotsOut.date, CLINIC_OPEN_HOUR, 0)
           /\ slotsOut.resp.available_slots[j].end_time
                  = At(slotsOut.date, CLINIC_CLOSE_HOUR, 0)

\* the events of the calendar that fall on a date
EventsOfDate(cal, d) ==
    {e \in cal : e.end > At(d, 0, 0) /\ e.start < At(d + 1, 0, 0)}

\* a timed interval closer than BUFFER_TIME minutes to the candidate
HasConflict(candidate_start, candidate_end, existing) ==
    \E e \in existing :
        /\ e.timed
        /\ candidate_start - Minutes(BUFFER_TIME) < e.end
        /\ candidate_end + Minutes(BUFFER_TIME) > e.start

\* the starts opening + 30k minutes of a date whose candidate ends by
\* closing and has no conflict with the events of the date
CandidateStarts(cal, d, dur) ==
    {t \in {At(d, CLINIC_OPEN_HOUR, 0) + Minutes(30 * k) : k \in 0..(Day \div Minutes(30))} :
        /\ t + Minutes(dur) <= At(d, CLINIC_CLOSE_HOUR, 0)
        /\ ~HasConflict(t, t + Minutes(dur), EventsOfDate(cal, d))}

\* C11: for an open date after today the slots returned are, in
\* chronological order, exactly the candidates that start at opening + 30k
\* minutes, end by closing and have no conflict with the events of the date.
C11_ExactCandidates ==
    (/\ slotsOut # NoSlots
     /\ Weekday(slotsOut.date) # 6
     /\ slotsOut.date > DateOf(now))
    => LET s == slotsOut.resp.available_slots IN
       /\ {s[i].start_time : i \in 1..Len(s)}
              = CandidateStarts(calendar, slotsOut.date, slotsOut.duration)
       /\ \A i \in 1..Len(s) :
              s[i].end_time = s[i].start_time + Minutes(slotsOut.duration)
       /\ \A i \in 1..(Len(s) - 1) : s[i].start_time < s[i + 1].start_time

\* C12: the conflict check of a booking finds a conflict exactly when some
\* timed event E of the date has start - buffer < E.end and
\* end + buffer > E.start; a gap of exactly BUFFER_TIME is no conflict.
C12_ConflictIffBuffered ==
    (/\ last.op = "book"
     /\ last.read = "ok"
     /\ last.kind \in {"conflict", "success", "system_error"})
    => (last.kind = "conflict"
        <=> HasConflict(ReqStart(last.req), ReqEnd(last.req),
                        EventsOfDate(ExistingBefore, last.req.appointment_date)))

\* a request that ends exactly BUFFER_TIME minutes before a timed event and
\* is booked
C12_Witness ==
    /\ last.op = "book"
    /\ last.kind = "success"
    /\ last.read = "ok"
    /\ \E e \in ExistingBefore :
           e.timed /\ ReqEnd(last.req) + Minutes(BUFFER_TIME) = e.start

\* C13: two consecutive slot queries for the same date and duration on an
\* unchanged calendar return identical slot lists.
C13_Idempotent ==
    [][(/\ slotsOut # NoSlots
        /\ slotsOut' # NoSlots
        /\ slotsOut'.date = slotsOut.date
        /\ slotsOut'.duration = slotsOut.duration
        /\ calendar' = calendar)
       => slotsOut'.resp.available_slots = slotsOut.resp.available_slots]_vars

\* C14: every interval that book() commits to the calendar has
\* start < end; a request with a duration <= 0 is never committed.
C14_CommittedProper ==
    \A e \in Booked(calendar) : e.start < e.end

\* C15: a book() call whose calendar write fails returns the failure and
\* leaves the calendar as it was; a call inserts at most one event, and only
\* a call that returns success inserts one.
C15_WriteFailure ==
    [][last'.op = "book" =>
          IF last'.kind = "success"
          THEN last'.event \notin calendar /\ calendar' = calendar \cup {last'.event}
          ELSE calendar' = calendar]_vars

\* the insert of a valid request without conflict has raised
C15_Witness ==
    /\ last.op = "book"
    /\ last.kind = "system_error"
    /\ last.read = "ok"
    /\ last.event = NoEvent

\* C16: a rejected booking carries alternatives only when it is a conflict
\* rejection; they are then the first slots, at most 5, of slot generation
\* for the requested date and duration, and none of them conflicts with an
\* event of that date.
C16_Alternatives ==
    last.op = "book" =>
        LET alts == last.alternatives
            d == last.req.appointment_date
        IN IF last.kind # "conflict" THEN alts = <<>>
           ELSE /\ Len(alts) <= 5
                /\ alts = FirstFive(generate_alternative_slots(
                               calendar, now, d, last.req.duration_minutes, TRUE))
                /\ \A i \in 1..Len(alts) :
                       ~HasConflict(alts[i].start_time, alts[i].end_time,
                                    EventsOfDate(calendar, d))

\* C17: whatever the text (today, tomorrow, a day name, next week, a month
\* and day, or text that names nothing) and whatever the reference time, the
\* date the resolver returns is not a Sunday.
C17_NeverSunday ==
    resolved # NoResolved => Weekday(resolved.date) # 6

\* "sunday" resolved to the Monday after it
C17_Witness ==
    /\ resolved.input = Phrase({"sunday"})
    /\ Weekday(resolved.date) = 0
    /\ resolved.date > DateOf(now)

\* C18: for a month and day that the generic parsing accepts, the date
\* returned is strictly after today, the year being advanced whenever the
\* parsed date is not.
C18_FallbackFuture ==
    (/\ resolved # NoResolved
     /\ resolved.input.words = {}
     /\ ValidDate(YearOf(DateOf(now)), resolved.input.month, resolved.input.day))
    => resolved.date > DateOf(now)

FirstFailedCheck(clock, r) ==
    LET start == ReqStart(r)
        end == ReqEnd(r)
    IN IF r.patient_name = "" \/ r.patient_phone = <<>> THEN "missing_field"
       ELSE IF ~validate_phone_number(r.patient_phone) THEN "invalid_phone"
       ELSE IF start <= clock THEN "past"
       ELSE IF \/ HourOf(start) < CLINIC_OPEN_HOUR
               \/ HourOf(start) >= CLINIC_CLOSE_HOUR
               \/ HourOf(end - Minutes(1)) < CLINIC_OPEN_HOUR
               \/ HourOf(end - Minutes(1)) >= CLINIC_CLOSE_HOUR
       THEN "outside_hours"
       ELSE IF Weekday(r.appointment_date) = 6 THEN "closed_day"
       ELSE IF end > At(DateOf(start), CLINIC_CLOSE_HOUR, 0) THEN "exceeds_hours"
       ELSE "none"

\* C20: book() checks required fields, phone format, past start, business
\* hours of start and of end - 1 minute, closed day, end after closing and
\* calendar conflict in this order; the rejection is that of the first check
\* that fails, and when one before the conflict check fails the calendar is
\* neither read nor written.
C20_CheckOrder ==
    last.op = "book" =>
        LET failed == FirstFailedCheck(now, last.req) IN
        IF failed # "none"
        THEN /\ last.kind = failed
             /\ last.read = "none"
             /\ last.event = NoEvent
             /\ ExistingBefore = calendar
        ELSE /\ last.kind \in {"conflict", "success", "system_error"}
             /\ last.read # "none"
             /\ last.kind = "conflict" => last.conflicting \in calendar

\* a Sunday request that runs past closing is turned away for the hours,
\* the earlier of its two failed checks
C20_Witness ==
    /\ last.op = "book"
    /\ Weekday(last.req.appointment_date) = 6
    /\ ReqEnd(last.req) > At(last.req.appointment_date, CLINIC_CLOSE_HOUR, 0)
    /\ last.kind = "outside_hours"
    /\ last.read = "none"

\* C21: for a day name the resolver returns a date strictly after today,
\* even when today is the named day and the clinic is still open, at most 8
\* days ahead, on the named weekday, "sunday" being the Monday that follows.
C21_DayNameFuture ==
    \A i \in 1..Len(DaysOfWeek) :
        resolved.input = Phrase({DaysOfWeek[i]}) =>
            /\ resolved.date > DateOf(now)
            /\ resolved.date <= DateOf(now) + 8
            /\ Weekday(resolved.date) = (IF i = 7 THEN 0 ELSE i - 1)
            /\ i # 7 => resolved.date <= DateOf(now) + 7

\* "saturday" asked on a Saturday morning: the Saturday of next week
C21_Witness ==
    /\ resolved.input = Phrase({"saturday"})
    /\ Weekday(DateOf(now)) = 5
    /\ HourOf(now) < CLINIC_CLOSE_HOUR
    /\ resolved.date = DateOf(now) + 7

\* a query of 60-minute slots for the Tuesday while its only timed event is
\* the appointment 10:00-11:00
ScenarioQueried ==
    /\ slotsOut # NoSlots
    /\ slotsOut.date = Tuesday
    /\ slotsOut.duration = 60
    /\ {e \in EventsOfDate(calendar, Tuesday) : e.timed} = {ExtTuesday}

\* the starts of the slots returned
SlotStarts ==
    {slotsOut.resp.available_slots[i].start_time :
        i \in 1..Len(slotsOut.resp.available_slots)}

\* C22 as claimed: in the scenario the slot 09:00-10:00 is returned and no
\* candidate that starts from 09:30 up to 10:45 is.
C22_ScenarioBefore ==
    ScenarioQueried =>
        /\ At(Tuesday, 9, 0) \in SlotStarts
        /\ \A t \in SlotStarts : ~(At(Tuesday, 9, 30) <= t /\ t <= At(Tuesday, 10, 45))

\* C22 as amended: in the scenario the slot 09:00-10:00 is not returned,
\* its gap to the appointment being 0 < buffer, and no candidate that starts
\* from 09:30 up to 10:45 is returned either.
C22_ScenarioBeforeExcluded ==
    ScenarioQueried =>
        /\ At(Tuesday, 9, 0) \notin SlotStarts
        /\ \A t \in SlotStarts : ~(At(Tuesday, 9, 30) <= t /\ t <= At(Tuesday, 10, 45))

\* the scenario queried with slots returned, none of them before the
\* appointment
C22_Witness ==
    /\ ScenarioQueried
    /\ SlotStarts # {}
    /\ \A t \in SlotStarts : t > At(Tuesday, 10, 0)

\* C23: in the scenario the slot 11:00-12:00 is not returned (gap 0 <
\* buffer), no slot starts at 11:15 (candidates follow the 30-minute stride)
\* and the earliest slot returned after the appointment starts at 11:30.
C23_ScenarioAfter ==
    ScenarioQueried =>
        /\ At(Tuesday, 11, 0) \notin SlotStarts
        /\ At(Tuesday, 11, 15) \notin SlotStarts
        /\ At(Tuesday, 11, 30) \in SlotStarts
        /\ \A t \in SlotStarts : t >= At(Tuesday, 11, 0) => t >= At(Tuesday, 11, 30)

\* the scenario queried and the slot 11:30-12:30 returned first
C23_Witness ==
    /\ ScenarioQueried
    /\ slotsOut.resp.available_slots[1].start_time = At(Tuesday, 11, 30)
    /\ slotsOut.resp.available_slots[1].end_time = At(Tuesday, 12, 30)

\* C24: for every positive duration, durations that run past midnight
\* included, an event committed by book() starts and ends on one day that
\* is not a Sunday, no earlier than opening and no later than closing.
C24_CommittedWithinDay ==
    \A e \in Booked(calendar) :
        LET d == DateOf(e.start) IN
        /\ DateOf(e.end) = d
        /\ Weekday(d) # 6
        /\ At(d, CLINIC_OPEN_HOUR, 0) <= e.start
        /\ e.end <= At(d, CLINIC_CLOSE_HOUR, 0)

\* a request that would end on the next day, inside the hours, is turned
\* away for running past closing, while a booked event ends at closing
C24_Witness ==
    /\ last.op = "book"
    /\ DateOf(ReqEnd(last.req)) > DateOf(ReqStart(last.req))
    /\ is_within_clinic_hours(ReqEnd(last.req) - Minutes(1))
    /\ last.kind = "exceeds_hours"
    /\ \E e \in Booked(calendar) :
           e.end = At(DateOf(e.start), CLINIC_CLOSE_HOUR, 0)

\* C25: once book() has committed an interval X on a date, and nothing
\* else changes the calendar, a slot query for the date returns no slot that
\* overlaps X or lies within BUFFER_TIME minutes of it, and a second
\* book() for the interval X is rejected as a scheduling conflict.
C25_BookedStaysTaken ==
    /\ \A x \in Booked(calendar) :
           (slotsOut # NoSlots /\ slotsOut.date = DateOf(x.start)) =>
               \A i \in 1..Len(slotsOut.resp.available_slots) :
                   LET s == slotsOut.resp.available_slots[i] IN
                   \/ s.end_time + Minutes(BUFFER_TIME) <= x.start
                   \/ x.end + Minutes(BUFFER_TIME) <= s.start_time
    /\ (/\ last.op = "book"
        /\ \E x \in Booked(ExistingBefore) :
               x.start = ReqStart(last.req) /\ x.end = ReqEnd(last.req))
       => last.kind = "conflict"

\* the events of the calendar that are not marked cancelled
Active(cal) == {e \in cal : e.summary # "cancelled"}

\* C26: once cancel_appointment has succeeded for an event, the interval of
\* the event is bookable again: a book() that passes the field and business
\* checks and conflicts with cancelled events only is not rejected as a
\* conflict, and a slot query returns the candidate that a cancelled event
\* occupied when no other event conflicts with it.
C26_CancelledFreesInterval ==
    /\ (/\ last.op = "book"
        /\ BookPrecheck(now, last.req) = "valid"
        /\ ~HasConflict(ReqStart(last.req), ReqEnd(last.req), Active(ExistingBefore)))
       => last.kind # "conflict"
    /\ slotsOut # NoSlots =>
           \A e \in calendar \ Active(calendar) :
               (/\ e.start \in CandidateStarts(Active(calendar), slotsOut.date,
                                               slotsOut.duration)
                /\ e.end = e.start + Minutes(slotsOut.duration))
               => e.start \in SlotStarts

\* C27: every timed event this system inserted or moved lies on one day
\* that is not the closed day, between opening and closing, and its start
\* was after the clock when it was written.
C27_ManagedWithinRules ==
    /\ \A e \in calendar :
           (e.timed /\ e.origin \in {"book", "moved"}) =>
               LET d == DateOf(e.start) IN
               /\ DateOf(e.end) = d /\ Weekday(d) # 6
               /\ At(d, CLINIC_OPEN_HOUR, 0) <= e.start
               /\ e.end <= At(d, CLINIC_CLOSE_HOUR, 0)
    /\ (last.op \in {"book", "reschedule"} /\ last.kind = "success")
       => last.event.start > now

\* C28: the stage of a session becomes 'booking_complete' only in a request
\* whose processing called the calendar booking and got success; no
\* confirmation moves the stage there without a booking attempt.
C28_CompleteOnlyWhenBooked ==
    [][\A s \in SessionIds :
          (sessions'[s].stage = "booking_complete" /\ sessions[s].stage # "booking_complete")
          => (reply'.session = s /\ reply'.booking = "success")]_vars

\* C29: when the calendar booking made by a chat message reports success,
\* the reply has type 'booking_success' and the booking data of the session
\* is cleared.
C29_SuccessIsReported ==
    (reply.op = "chat" /\ reply.booking = "success") =>
        /\ reply.type = "booking_success"
        /\ sessions[reply.session].booking_data = {}

\* C30: a session whose last activity is older than SESSION_TIMEOUT is not
\* used by a later request: a request that touches the session id finds a
\* new session, so no confirm-booking request books with the old data.
C30_ExpiredNeverServed ==
    [][\A s \in SessionIds :
          (/\ sessions[s] # NoSession
           /\ now - sessions[s].last_activity > SESSION_TIMEOUT
           /\ sessions'[s] # NoSession
           /\ sessions'[s].last_activity # sessions[s].last_activity)
          => (sessions'[s].created_at = now' /\ reply'.booking # "success")]_vars

====
